---- MODULE Spec2Model ----
(***************************************************************************)
(* devicetool.py: the device registration tool of the Google Assistant     *)
(* SDK samples.  One run of the tool is one process: cli() loads the       *)
(* credentials and resolves the project, one subcommand issues its HTTP    *)
(* calls against the device registry, and the process exits.  The registry *)
(* (device models and device instances of the project) is the only state   *)
(* that survives a run.                                                    *)
(***************************************************************************)
EXTENDS Integers, Sequences, FiniteSets, TLC

VARIABLES
    models,     \* the registry: model id -> stored payload, or None
    devices,    \* the registry: device id -> stored payload, or None
    models0,    \* the registry's models when the running process started
    devices0,   \* the registry's devices when the running process started
    prev,       \* the previous process, when it was a register-model that created a model
    pc,         \* position of the running process
    cred,       \* what loading the credentials file met in this process
    ctx,        \* ctx.obj: SESSION, API_URL, PROJECT_ID, and the log level
    cmd,        \* the subcommand the process was started with
    args,       \* the subcommand's parameters
    log,        \* the HTTP requests issued by this process, with the status answered
    out,        \* what the process printed (click.echo and logging records)
    exc         \* the exception that ended the process, or None

vars == <<models, devices, models0, devices0, prev, pc, cred, ctx, cmd, args,
          log, out, exc>>

(***************************************************************************)
(* Bounds and input sets.                                                  *)
(***************************************************************************)
MaxTraits == 2

\* Python's None and a present value
None == <<>>
Some(v) == <<v>>

ModelIdSeq == <<"m1", "m2">>
ModelIds == {ModelIdSeq[i] : i \in 1..Len(ModelIdSeq)}
DeviceIdSeq == <<"d1">>
DeviceIds == {DeviceIdSeq[i] : i \in 1..Len(DeviceIdSeq)}
ProjectIds == {"p"}
TypeArgs == {"LIGHT"}
NicknameArgs == {None, Some("n")}
DescriptionArgs == {None}

\* --trait given n times; the tool is run without traits or with MaxTraits of them
TraitArg(n) == [i \in 1..n |-> "t" \o ToString(i)]
TraitArgs == {TraitArg(0), TraitArg(MaxTraits)}

\* status codes the registry may answer
Statuses == {200, 204, 400, 404, 500}

\* --api-endpoint default
DefaultEndpoint == "embeddedassistant.googleapis.com"

(***************************************************************************)
(* Responses.  r.text is the raw body; json is json.loads(r.text), None    *)
(* when the body is not valid JSON (json.loads raises ValueError).         *)
(***************************************************************************)
Response(status, body) ==
    [status_code |-> status, text |-> body.text, json |-> body.json]

ErrorObject(code, message, details) ==
    [code |-> code, message |-> message, details |-> details]

\* bodies a failed response may carry
ErrorBodies ==
    { [text |-> "oops", json |-> None],
      [text |-> "{}", json |-> Some([error |-> None])],
      [text |-> "{error:{code:404,message:not found}}",
       json |-> Some([error |-> Some(ErrorObject(Some(404), Some("not found"), None))])],
      [text |-> "{error:{code:400,message:bad,details:[{detail:x},{detail:y}]}}",
       json |-> Some([error |-> Some(ErrorObject(Some(400), Some("bad"),
                                      Some(<<Some("x"), Some("y")>>)))])] }

\* the body of a 200 answer to a call whose body the tool only logs
OkBody == [text |-> "{}", json |-> Some([error |-> None])]

BodiesOf(status) == IF status = 200 THEN {OkBody} ELSE ErrorBodies

(***************************************************************************)
(* Exceptions and printed records.                                         *)
(***************************************************************************)
ClickException(message) == Some([type |-> "ClickException", message |-> message])
KeyError(key) == Some([type |-> "KeyError", message |-> key])

Echo(line) == <<[stream |-> "echo", lines |-> <<line>>]>>
Info(lines) == <<[stream |-> "info", lines |-> lines]>>
\* logging.debug prints only at level DEBUG (--verbose); the record keeps
\* the name of what was logged, not its text
Debug(verbose, what) ==
    IF verbose THEN <<[stream |-> "debug", lines |-> <<what>>]>> ELSE <<>>

RECURSIVE JoinNL(_)
\* '\n'.join(s)
JoinNL(s) ==
    IF Len(s) = 0 THEN ""
    ELSE IF Len(s) = 1 THEN s[1]
    ELSE s[1] \o "\n" \o JoinNL(Tail(s))

RECURSIVE Flatten(_)
Flatten(ss) == IF Len(ss) = 0 THEN <<>> ELSE Head(ss) \o Flatten(Tail(ss))

\* the lines on the terminal: every record's lines, in order
Lines(o) == Flatten([i \in 1..Len(o) |-> o[i].lines])

(***************************************************************************)
(* failed_request_exception: the exception to raise for a failed request.  *)
(* A KeyError result is the exception the function itself dies with.       *)
(***************************************************************************)
failed_request_exception(message, r) ==
    IF r.json = None
    THEN ClickException(message \o ": " \o ToString(r.status_code) \o "\n" \o r.text)
    ELSE LET resp == r.json[1] IN
         IF resp.error = None THEN KeyError("error")
         ELSE LET e == resp.error[1] IN
              IF e.code = None THEN KeyError("code")
              ELSE IF e.message = None THEN KeyError("message")
              ELSE LET m == message \o ": " \o ToString(e.code[1]) \o " " \o e.message[1] IN
                   IF e.details = None THEN ClickException(m)
                   ELSE LET ds == e.details[1] IN
                        IF \E i \in 1..Len(ds) : ds[i] = None
                        THEN KeyError("detail")
                        ELSE ClickException(
                                 m \o " " \o JoinNL([i \in 1..Len(ds) |-> ds[i][1]]))

(***************************************************************************)
(* Response formatter.                                                     *)
(***************************************************************************)
\* variant: the closing blank line is left out
pretty_print_model_no_newline(devicemodel) ==
    LET header == Info(<<"Device Model Id: " \o devicemodel.deviceModelId,
                         "        Project Id: " \o devicemodel.projectId,
                         "        Device Type: " \o devicemodel.deviceType>>)
    IN  IF devicemodel.traits = None
        THEN [out |-> header, exc |-> KeyError("traits")]
        ELSE LET traits == devicemodel.traits[1] IN
             [out |-> header
                      \o Flatten([i \in 1..Len(traits) |->
                                     Info(<<"        Trait " \o traits[i]>>)]),
              exc |-> None]

\* pretty_print_model: the records printed, and the KeyError when the dict
\* has no 'traits'
pretty_print_model(devicemodel) ==
    LET header == Info(<<"Device Model Id: " \o devicemodel.deviceModelId,
                         "        Project Id: " \o devicemodel.projectId,
                         "        Device Type: " \o devicemodel.deviceType>>)
    IN  IF devicemodel.traits = None
        THEN [out |-> header, exc |-> KeyError("traits")]
        ELSE LET traits == devicemodel.traits[1] IN
             [out |-> header
                      \o Flatten([i \in 1..Len(traits) |->
                                     Info(<<"        Trait " \o traits[i]>>)])
                      \o Info(<<"">>),
              exc |-> None]

pretty_print_device(device) ==
    [out |-> Info(<<"Device Instance Id: " \o device.id>>)
             \o (IF device.nickname # None
                 THEN Info(<<"    Nickname: " \o device.nickname[1]>>) ELSE <<>>)
             \o (IF device.modelId # None
                 THEN Info(<<"    Model: " \o device.modelId[1]>>) ELSE <<>>)
             \o Info(<<"">>),
     exc |-> None]

RECURSIVE PrintAll(_, _)
\* the for loops of list: print every item until one raises
PrintAll(items, resource) ==
    IF Len(items) = 0 THEN [out |-> <<>>, exc |-> None]
    ELSE LET first == IF resource = "deviceModels"
                      THEN pretty_print_model(Head(items))
                      ELSE pretty_print_device(Head(items))
         IN  IF first.exc # None THEN first
             ELSE LET rest == PrintAll(Tail(items), resource) IN
                  [out |-> first.out \o rest.out, exc |-> rest.exc]

(***************************************************************************)
(* URLs and payloads.                                                      *)
(***************************************************************************)
Join(a, b) == a \o "/" \o b

ApiUrl(api_endpoint, project) ==
    "https://" \o api_endpoint \o "/v1alpha2/projects/" \o project

\* a Python string option is true when given and not empty
Truthy(opt) == opt # None /\ opt # Some("")

\* payload.setdefault('manifest', {})[key] = value, for the values given
Manifest(manufacturer, product_name, description) ==
    IF Truthy(manufacturer) \/ Truthy(product_name) \/ Truthy(description)
    THEN Some([manufacturer |-> IF Truthy(manufacturer) THEN manufacturer ELSE None,
               productName |-> IF Truthy(product_name) THEN product_name ELSE None,
               deviceDescription |-> IF Truthy(description) THEN description ELSE None])
    ELSE None

\* register_model's payload
ModelPayload(a, project_id) ==
    [device_model_id |-> a.model[1],
     project_id |-> project_id,
     device_type |-> "action.devices.types." \o a.type[1],
     traits |-> IF Len(a.trait) > 0 THEN Some(a.trait) ELSE None,
     manifest |-> Manifest(a.manufacturer, a.product_name, a.description)]

\* register_device's payload
DevicePayload(a) ==
    [id |-> a.device[1],
     model_id |-> a.model[1],
     nickname |-> IF Truthy(a.nickname) THEN a.nickname ELSE None]

(***************************************************************************)
(* The registry's side of a call.                                          *)
(***************************************************************************)
\* a GET answers 200 only for a resource that exists and 404 only for one
\* that does not; every other status may be answered either way
GetStatuses(present) ==
    IF present THEN Statuses \ {404} ELSE Statuses \ {200}

\* the resources as the registry returns them
ModelResource(p) ==
    [deviceModelId |-> p.device_model_id, projectId |-> p.project_id,
     deviceType |-> p.device_type, traits |-> p.traits]

DeviceResource(p) ==
    [id |-> p.id, nickname |-> p.nickname, modelId |-> Some(p.model_id)]

\* the items of a collection, in id order
Present(reg, ids) == SelectSeq(ids, LAMBDA i : reg[i] # None)

ModelItems ==
    LET ids == Present(models, ModelIdSeq) IN
    [i \in 1..Len(ids) |-> ModelResource(models[ids[i]][1])]

DeviceItems ==
    LET ids == Present(devices, DeviceIdSeq) IN
    [i \in 1..Len(ids) |-> DeviceResource(devices[ids[i]][1])]

\* what was asked and what was answered
Request(method, url, status) == [method |-> method, url |-> url, status |-> status]

(***************************************************************************)
(* The initial state: an empty registry and no process running.           *)
(***************************************************************************)
NoCtx == [SESSION |-> FALSE, API_URL |-> None, PROJECT_ID |-> None, verbose |-> FALSE]

NoArgs ==
    [model |-> None, type |-> None, trait |-> <<>>, manufacturer |-> None,
     product_name |-> None, description |-> None, device |-> None,
     nickname |-> None, resource |-> None, id |-> None]

Init ==
    /\ models = [m \in ModelIds |-> None]
    /\ devices = [d \in DeviceIds |-> None]
    /\ models0 = models
    /\ devices0 = devices
    /\ prev = None
    /\ pc = "start"
    /\ cred = "unread"
    /\ ctx = NoCtx
    /\ cmd = ""
    /\ args = NoArgs
    /\ log = <<>>
    /\ out = <<>>
    /\ exc = None

(***************************************************************************)
(* cli: the group callback, run once at the start of every process.       *)
(***************************************************************************)
CredentialFiles == {"ok", "missing", "malformed", "refresh_fails"}
SecretFiles == {"ok", "missing", "no_project_id"}

\* variant: the failure of the refresh is swallowed
CredentialsFailureRefreshIgnored(file) ==
    IF file = "missing" THEN Some("No such file or directory")
    ELSE IF file = "malformed" THEN Some("Expecting value")
    ELSE None

\* the exception open/json.load/Credentials/refresh raise, None when all succeed
CredentialsFailure(file) ==
    IF file = "missing" THEN Some("No such file or directory")
    ELSE IF file = "malformed" THEN Some("Expecting value")
    ELSE IF file = "refresh_fails" THEN Some("invalid_grant")
    ELSE None

SecretFailure(file) ==
    IF file = "missing" THEN Some("No such file or directory")
    ELSE IF file = "no_project_id" THEN Some("'project_id'")
    ELSE None

Raise(e) ==
    /\ exc' = e
    /\ pc' = "exit"

cli ==
    /\ pc = "start"
    /\ \E credentials \in CredentialFiles, project \in {None} \cup {Some(p) : p \in ProjectIds},
          client_secret \in {None, Some("secret.json")}, secret \in SecretFiles,
          verbose \in BOOLEAN :
         LET e == CredentialsFailure(credentials)
             secret_path == IF client_secret = None
                            THEN "client_secret_" \o "cid" \o ".json"
                            ELSE client_secret[1]
             e2 == SecretFailure(secret)
             resolved == IF project # None THEN project[1] ELSE "p"
         IN  /\ cred' = credentials
             /\ IF e # None
                THEN /\ Raise(ClickException(
                            "Error loading credentials: " \o e[1] \o ".\n"
                            \o "Run google-oauthlib-tool to initialize "
                            \o "new OAuth 2.0 credentials."))
                     /\ UNCHANGED ctx
                ELSE IF project = None /\ e2 # None
                THEN /\ Raise(ClickException(
                            "Error loading client secret: " \o e2[1] \o ".\n"
                            \o "Run the register tool with --client-secret "
                            \o "or --project option.\n"
                            \o "Or copy the " \o secret_path \o " file "
                            \o "in the current directory."))
                     /\ UNCHANGED ctx
                ELSE /\ ctx' = [SESSION |-> TRUE,
                                API_URL |-> Some(ApiUrl(DefaultEndpoint, resolved)),
                                PROJECT_ID |-> Some(resolved),
                                verbose |-> verbose]
                     /\ pc' = "dispatch"
                     /\ UNCHANGED exc
    /\ models0' = models
    /\ devices0' = devices
    /\ UNCHANGED <<models, devices, prev, cmd, args, log, out>>

(***************************************************************************)
(* The upsert protocol's two decisions.                                    *)
(***************************************************************************)
\* variant: an existing resource is created again instead of updated
UpsertPathNoUpdate(status_code) ==
    IF status_code \in {200, 400, 404} THEN "create" ELSE "fail"

\* variant: every status other than 200 is taken for not-found
UpsertPathAnyError(status_code) ==
    IF status_code = 200 THEN "update" ELSE "create"

\* what the status of the initial GET selects
UpsertPath(status_code) ==
    IF status_code = 200 THEN "update"
    ELSE IF status_code \in {400, 404} THEN "create"
    ELSE "fail"

\* variant: every 2xx status passes the check
RegisteredAny2xx(status_code) == status_code \in 200..299

\* the check made on the mutating call's response
Registered(status_code) == status_code = 200

model_base_url == Join(ctx.API_URL[1], "deviceModels")
model_url == Join(model_base_url, args.model[1])
device_base_url == Join(ctx.API_URL[1], "devices")
device_url == Join(device_base_url, args.device[1])

(***************************************************************************)
(* Subcommand entry points.                                                *)
(***************************************************************************)
ModelArgs(model, type, trait, description) ==
    [NoArgs EXCEPT !.model = Some(model), !.type = Some(type), !.trait = trait,
                   !.manufacturer = Some("mfr"), !.product_name = Some("prod"),
                   !.description = description]

Enter(name, a, at) ==
    /\ pc = "dispatch"
    /\ cmd' = name
    /\ args' = a
    /\ pc' = at
    /\ UNCHANGED <<models, devices, models0, devices0, prev, cred, ctx, log, out, exc>>

\* variant: register invokes register_device first
register_device_first ==
    \E model \in ModelIds, type \in TypeArgs, trait \in TraitArgs,
       description \in DescriptionArgs, device \in DeviceIds, nickname \in NicknameArgs :
        Enter("register",
              [ModelArgs(model, type, trait, description)
                   EXCEPT !.device = Some(device), !.nickname = nickname],
              "rd_get")

\* register: ctx.invoke(register_model, ...) and then ctx.invoke(register_device, ...)
register ==
    \E model \in ModelIds, type \in TypeArgs, trait \in TraitArgs,
       description \in DescriptionArgs, device \in DeviceIds, nickname \in NicknameArgs :
        Enter("register",
              [ModelArgs(model, type, trait, description)
                   EXCEPT !.device = Some(device), !.nickname = nickname],
              "rm_get")

register_model ==
    \E model \in ModelIds, type \in TypeArgs, trait \in TraitArgs,
       description \in DescriptionArgs :
        Enter("register-model", ModelArgs(model, type, trait, description), "rm_get")

register_device ==
    \E device \in DeviceIds, model \in ModelIds, nickname \in NicknameArgs :
        Enter("register-device",
              [NoArgs EXCEPT !.device = Some(device), !.model = Some(model),
                             !.nickname = nickname],
              "rd_get")

(***************************************************************************)
(* register_model, one action per HTTP call.                               *)
(***************************************************************************)
\* where a subcommand that returned leaves the process
AfterModel == IF cmd = "register" THEN "rd_get" ELSE "exit"

\* r = session.get(model_url) and the branch on its status
register_model_get ==
    /\ pc = "rm_get"
    /\ \E status \in GetStatuses(models[args.model[1]] # None) :
       \E body \in BodiesOf(status) :
         LET r == Response(status, body)
             debug == Debug(ctx.verbose, "payload") \o Debug(ctx.verbose, "r.text")
             path == UpsertPath(r.status_code)
         IN  /\ log' = Append(log, Request("GET", model_url, status))
             /\ IF path = "update"
                THEN /\ out' = out \o debug
                             \o Echo("Updating existing device model: " \o args.model[1])
                     /\ pc' = "rm_put"
                     /\ UNCHANGED exc
                ELSE IF path = "create"
                THEN /\ out' = out \o debug \o Echo("Creating new device model")
                     /\ pc' = "rm_post"
                     /\ UNCHANGED exc
                ELSE /\ out' = out \o debug
                     /\ Raise(failed_request_exception("Unknown error occurred", r))
    /\ UNCHANGED <<models, devices, models0, devices0, prev, cred, ctx, cmd, args>>

\* the mutating call of register_model and the check of its status
ModelMutation(at, method, url) ==
    /\ pc = at
    /\ \E status \in Statuses :
       \E body \in BodiesOf(status) :
         LET r == Response(status, body)
             payload == ModelPayload(args, ctx.PROJECT_ID[1])
         IN  /\ log' = Append(log, Request(method, url, status))
             /\ models' = IF status = 200
                          THEN [models EXCEPT ![args.model[1]] = Some(payload)]
                          ELSE models
             /\ IF ~Registered(r.status_code)
                THEN /\ Raise(failed_request_exception("Failed to register model", r))
                     /\ UNCHANGED out
                ELSE /\ out' = out \o Echo("Model " \o args.model[1]
                                           \o " successfully registered")
                     /\ pc' = AfterModel
                     /\ UNCHANGED exc
    /\ UNCHANGED <<devices, models0, devices0, prev, cred, ctx, cmd, args>>

\* r = session.put(model_url, data=json.dumps(payload))
register_model_put == ModelMutation("rm_put", "PUT", model_url)

\* r = session.post(model_base_url, data=json.dumps(payload))
register_model_post == ModelMutation("rm_post", "POST", model_base_url)

(***************************************************************************)
(* register_device, one action per HTTP call.                              *)
(***************************************************************************)
\* r = session.get(device_url) and the branch on its status
register_device_get ==
    /\ pc = "rd_get"
    /\ \E status \in GetStatuses(devices[args.device[1]] # None) :
       \E body \in BodiesOf(status) :
         LET r == Response(status, body)
             debug == Debug(ctx.verbose, "payload")
             path == UpsertPath(r.status_code)
         IN  /\ log' = Append(log, Request("GET", device_url, status))
             /\ IF path = "update"
                THEN /\ out' = out \o debug
                             \o Echo("Updating existing device: " \o args.device[1])
                     /\ pc' = "rd_delete"
                     /\ UNCHANGED exc
                ELSE IF path = "create"
                THEN /\ out' = out \o debug \o Echo("Creating new device")
                     /\ pc' = "rd_post"
                     /\ UNCHANGED exc
                ELSE /\ out' = out \o debug
                     /\ Raise(failed_request_exception("Failed to check existing device", r))
    /\ UNCHANGED <<models, devices, models0, devices0, prev, cred, ctx, cmd, args>>

\* variant: a DELETE that fails is sent again
register_device_delete_retried ==
    /\ pc = "rd_delete"
    /\ \E status \in Statuses :
         /\ log' = Append(log, Request("DELETE", device_url, status))
         /\ devices' = IF status = 200
                       THEN [devices EXCEPT ![args.device[1]] = None]
                       ELSE devices
         /\ pc' = IF status = 200 THEN "rd_post" ELSE "rd_delete"
    /\ UNCHANGED <<models, models0, devices0, prev, cred, ctx, cmd, args, out, exc>>

\* variant: the DELETE is left out
register_device_delete_skipped ==
    /\ pc = "rd_delete"
    /\ pc' = "rd_post"
    /\ UNCHANGED <<models, devices, models0, devices0, prev, cred, ctx, cmd, args,
                   log, out, exc>>

\* variant: a DELETE that fails raises
register_device_delete_checked ==
    /\ pc = "rd_delete"
    /\ \E status \in Statuses :
       \E body \in BodiesOf(status) :
         /\ log' = Append(log, Request("DELETE", device_url, status))
         /\ devices' = IF status = 200
                       THEN [devices EXCEPT ![args.device[1]] = None]
                       ELSE devices
         /\ IF status = 200
            THEN pc' = "rd_post" /\ UNCHANGED exc
            ELSE Raise(failed_request_exception("Failed to delete device",
                                                Response(status, body)))
    /\ UNCHANGED <<models, models0, devices0, prev, cred, ctx, cmd, args, out>>

\* session.delete(device_url): the response is dropped
register_device_delete ==
    /\ pc = "rd_delete"
    /\ \E status \in Statuses :
         /\ log' = Append(log, Request("DELETE", device_url, status))
         /\ devices' = IF status = 200
                       THEN [devices EXCEPT ![args.device[1]] = None]
                       ELSE devices
    /\ pc' = "rd_post"
    /\ UNCHANGED <<models, models0, devices0, prev, cred, ctx, cmd, args, out, exc>>

\* r = session.post(device_base_url, data=json.dumps(payload)) and the check
\* of its status
register_device_post ==
    /\ pc = "rd_post"
    /\ \E status \in Statuses :
       \E body \in BodiesOf(status) :
         LET r == Response(status, body)
             payload == DevicePayload(args)
         IN  /\ log' = Append(log, Request("POST", device_base_url, status))
             /\ devices' = IF status = 200
                           THEN [devices EXCEPT ![args.device[1]] = Some(payload)]
                           ELSE devices
             /\ IF ~Registered(r.status_code)
                THEN /\ Raise(failed_request_exception("Failed to register device", r))
                     /\ UNCHANGED out
                ELSE /\ out' = out \o Echo("Device instance " \o args.device[1]
                                           \o " successfully registered")
                             \o Debug(ctx.verbose, "r.text")
                     /\ pc' = "exit"
                     /\ UNCHANGED exc
    /\ UNCHANGED <<models, models0, devices0, prev, cred, ctx, cmd, args>>

(***************************************************************************)
(* get and list.                                                           *)
(***************************************************************************)
ResourceArgs == {"deviceModels", "devices"}

IdsOf(resource) == IF resource = "deviceModels" THEN ModelIds ELSE DeviceIds

Stored(resource, id) == IF resource = "deviceModels" THEN models[id] ELSE devices[id]

\* the body of a 200 answer to GET {resource}/{id}
ItemBody(resource, id) ==
    IF resource = "deviceModels"
    THEN [text |-> "{deviceModelId: " \o id \o "}", json |-> Some(ModelResource(models[id][1]))]
    ELSE [text |-> "{id: " \o id \o "}", json |-> Some(DeviceResource(devices[id][1]))]

\* the bodies of a 200 answer to GET {resource}: the collection field holds
\* the items; for an empty collection the field may be left out
CollectionBodies(resource) ==
    LET items == IF resource = "deviceModels" THEN ModelItems ELSE DeviceItems
        text == "{" \o resource \o ": " \o ToString(Len(items)) \o " items}"
    IN  {[text |-> text, json |-> Some(Some(items))]}
        \cup (IF Len(items) = 0 THEN {[text |-> "{}", json |-> Some(None)]} ELSE {})

get ==
    /\ pc = "dispatch"
    /\ \E resource \in ResourceArgs :
       \E id \in IdsOf(resource) :
       \E status \in GetStatuses(Stored(resource, id) # None) :
       \E body \in (IF status = 200 THEN {ItemBody(resource, id)} ELSE ErrorBodies) :
         LET r == Response(status, body)
             url == Join(Join(ctx.API_URL[1], resource), id)
         IN  /\ cmd' = "get"
             /\ args' = [NoArgs EXCEPT !.resource = Some(resource), !.id = Some(id)]
             /\ log' = Append(log, Request("GET", url, status))
             /\ IF r.status_code # 200
                THEN /\ exc' = failed_request_exception("Failed to get resource", r)
                     /\ UNCHANGED out
                ELSE LET response == r.json[1]
                         printed == IF resource = "deviceModels"
                                    THEN pretty_print_model(response)
                                    ELSE pretty_print_device(response)
                     IN  /\ exc' = printed.exc
                         /\ out' = out \o printed.out
                                   \o (IF printed.exc = None
                                       THEN Debug(ctx.verbose, "r.text") ELSE <<>>)
    /\ pc' = "exit"
    /\ UNCHANGED <<models, devices, models0, devices0, prev, cred, ctx>>

list ==
    /\ pc = "dispatch"
    /\ \E resource \in ResourceArgs :
       \E status \in Statuses :
       \E body \in (IF status = 200 THEN CollectionBodies(resource) ELSE ErrorBodies) :
         LET r == Response(status, body)
             url == Join(ctx.API_URL[1], resource)
         IN  /\ cmd' = "list"
             /\ args' = [NoArgs EXCEPT !.resource = Some(resource)]
             /\ log' = Append(log, Request("GET", url, status))
             /\ IF r.status_code # 200
                THEN /\ exc' = failed_request_exception("Failed to list resources", r)
                     /\ UNCHANGED out
                ELSE LET collection == r.json[1] IN
                     IF collection = None
                     THEN /\ exc' = KeyError(resource)
                          /\ out' = out \o Debug(ctx.verbose, "r.text")
                     ELSE LET printed == PrintAll(collection[1], resource) IN
                          /\ exc' = printed.exc
                          /\ out' = out \o Debug(ctx.verbose, "r.text") \o printed.out
    /\ pc' = "exit"
    /\ UNCHANGED <<models, devices, models0, devices0, prev, cred, ctx>>

(***************************************************************************)
(* main: the process ends; the next run starts from the registry it left.  *)
(***************************************************************************)
\* every call of this register-model run was answered as a registry without
\* faults answers: the GET by 200 for a model that exists and 404 for one
\* that does not, the PUT or POST by 200
FaultFree ==
    \A i \in 1..Len(log) :
        log[i].status = IF log[i].method = "GET" /\ models0[args.model[1]] = None
                        THEN 404 ELSE 200

\* what is remembered of the process that ended: for a register-model that
\* succeeded without faults on a model that was absent, its parameters and
\* the methods it issued
Summary ==
    IF cmd = "register-model" /\ exc = None /\ models0[args.model[1]] = None /\ FaultFree
    THEN Some([args |-> args, methods |-> [i \in 1..Len(log) |-> log[i].method]])
    ELSE None

main ==
    /\ pc = "exit"
    /\ prev' = Summary
    /\ pc' = "start"
    /\ cred' = "unread"
    /\ ctx' = NoCtx
    /\ cmd' = ""
    /\ args' = NoArgs
    /\ log' = <<>>
    /\ out' = <<>>
    /\ exc' = None
    /\ models0' = models
    /\ devices0' = devices
    /\ UNCHANGED <<models, devices>>

Next ==
    \/ cli
    \/ register
    \/ register_model
    \/ register_device
    \/ register_model_get
    \/ register_model_put
    \/ register_model_post
    \/ register_device_get
    \/ register_device_delete
    \/ register_device_post
    \/ get
    \/ list
    \/ main

Spec == Init /\ [][Next]_vars

(***************************************************************************)
(* Vocabulary of the properties.                                           *)
(***************************************************************************)
Methods(l) == [i \in 1..Len(l) |-> l[i].method]

Calls(l) == [i \in 1..Len(l) |-> <<l[i].method, l[i].url>>]

\* the URLs of the two resources, over every project
ModelUrls ==
    UNION {{Join(ApiUrl(DefaultEndpoint, p), "deviceModels")}
           \cup {Join(Join(ApiUrl(DefaultEndpoint, p), "deviceModels"), m) : m \in ModelIds}
           : p \in ProjectIds}
DeviceUrls ==
    UNION {{Join(ApiUrl(DefaultEndpoint, p), "devices")}
           \cup {Join(Join(ApiUrl(DefaultEndpoint, p), "devices"), d) : d \in DeviceIds}
           : p \in ProjectIds}

IsModelRequest(q) == q.url \in ModelUrls
IsDeviceRequest(q) == q.url \in DeviceUrls

\* the requests of the register-model part and of the register-device part
ModelPart == SelectSeq(log, IsModelRequest)
DevicePart == SelectSeq(log, IsDeviceRequest)

Upserting == cmd \in {"register", "register-model", "register-device"}

IsPrefix(s, t) == Len(s) <= Len(t) /\ s = SubSeq(t, 1, Len(s))

Echoed(line) == \E i \in 1..Len(out) : out[i].stream = "echo" /\ out[i].lines = <<line>>

ModelRegisteredLine == "Model " \o args.model[1] \o " successfully registered"
DeviceRegisteredLine == "Device instance " \o args.device[1] \o " successfully registered"

(***************************************************************************)
(* C1                                                                      *)
(***************************************************************************)
\* C1: in every run of register, every request on deviceModels is issued
\* before the first request on devices, and a request on devices is only
\* sent once the model's PUT or POST has been made.
C1_ModelBeforeDevice ==
    cmd = "register" =>
        \A j \in 1..Len(log) :
            IsDeviceRequest(log[j]) =>
                /\ \A i \in 1..Len(log) : IsModelRequest(log[i]) => i < j
                /\ \E i \in 1..(j - 1) :
                       IsModelRequest(log[i]) /\ log[i].method \in {"PUT", "POST"}

\* a run of register that went through both parts
C1_Witness ==
    /\ cmd = "register"
    /\ pc = "exit"
    /\ Len(ModelPart) = 2
    /\ Len(DevicePart) = 3

(***************************************************************************)
(* C2                                                                      *)
(***************************************************************************)
\* C2: when register-model created a model that was absent and is run again
\* with the same parameters against a registry without faults, the first run
\* issued GET, POST, the second issues GET, PUT, and the registry is left as
\* the first run left it, holding the payload under the model's id.
C2_UpsertIdempotent ==
    ( /\ prev # None
      /\ cmd = "register-model"
      /\ args = prev[1].args
      /\ pc = "exit"
      /\ FaultFree )
    => /\ prev[1].methods = <<"GET", "POST">>
       /\ Methods(log) = <<"GET", "PUT">>
       /\ exc = None
       /\ models = models0
       /\ models[args.model[1]] = Some(ModelPayload(args, ctx.PROJECT_ID[1]))

\* the second of two identical register-model runs has ended
C2_Witness ==
    /\ prev # None
    /\ cmd = "register-model"
    /\ args = prev[1].args
    /\ pc = "exit"
    /\ FaultFree
    /\ Len(args.trait) = MaxTraits

(***************************************************************************)
(* C3                                                                      *)
(***************************************************************************)
\* C3: when the credentials file is missing or malformed, or the refresh
\* fails, the process ends with the ClickException of the credential loader:
\* no session is created, no project is resolved, no subcommand runs and no
\* request is issued.
C3_NoSessionAfterCredentialFailure ==
    cred \in {"missing", "malformed", "refresh_fails"} =>
        /\ pc = "exit"
        /\ exc # None
        /\ exc[1].type = "ClickException"
        /\ ~ctx.SESSION
        /\ ctx.PROJECT_ID = None
        /\ ctx.API_URL = None
        /\ cmd = ""
        /\ log = <<>>

\* the refresh failed
C3_Witness ==
    /\ cred = "refresh_fails"
    /\ pc = "exit"

(***************************************************************************)
(* C4                                                                      *)
(***************************************************************************)
\* C4: every failed response (a 4xx or 5xx answer to the last call),
\* whatever its body, ends the process with a formatted ClickException
\* message, never with another exception.
C4_AlwaysFormatted ==
    (pc = "exit" /\ Len(log) > 0 /\ log[Len(log)].status >= 400) =>
        /\ exc # None
        /\ exc[1].type = "ClickException"

(***************************************************************************)
(* C5                                                                      *)
(***************************************************************************)
RECURSIVE NoRepeat(_)
\* no call (method and URL) occurs twice
NoRepeat(calls) ==
    \/ Len(calls) <= 1
    \/ /\ \A i \in 2..Len(calls) : calls[i] # calls[1]
       /\ NoRepeat(Tail(calls))

\* C5 as stated: every subcommand issues one or two calls, none repeated.
C5_OneOrTwoCalls ==
    (pc = "exit" /\ cmd # "") =>
        /\ Len(log) \in 1..2
        /\ NoRepeat(Calls(log))

\* the most calls a subcommand issues
MostCalls(c) ==
    IF c \in {"get", "list"} THEN 1
    ELSE IF c = "register-model" THEN 2
    ELSE IF c = "register-device" THEN 3
    ELSE 5

\* C5 amended: get and list issue one call, register-model one or two,
\* register-device one to three, register one to five, and no call is
\* repeated.
C5_BoundedCalls ==
    cmd # "" =>
        /\ Len(log) <= MostCalls(cmd)
        /\ pc = "exit" => Len(log) >= 1
        /\ (pc = "exit" /\ cmd \in {"get", "list"}) => Len(log) = 1
        /\ NoRepeat(Calls(log))

\* a run of register that issued five calls, one of them answered by a failure
C5_Witness ==
    /\ cmd = "register"
    /\ pc = "exit"
    /\ Len(log) = 5
    /\ \E i \in 1..Len(log) : log[i].status = 500

(***************************************************************************)
(* C6                                                                      *)
(***************************************************************************)
\* the mutating calls the initial GET's status asks for
ExpectedModelCalls(status) ==
    IF status = 200 THEN << <<"PUT", model_url>> >>
    ELSE IF status \in {400, 404} THEN << <<"POST", model_base_url>> >>
    ELSE <<>>

ExpectedDeviceCalls(status) ==
    IF status = 200 THEN << <<"DELETE", device_url>>, <<"POST", device_base_url>> >>
    ELSE IF status \in {400, 404} THEN << <<"POST", device_base_url>> >>
    ELSE <<>>

\* a part starts with the GET on the resource; what follows is what the
\* GET's status asks for, all of it once the part is over; a status other
\* than 200, 400 and 404 ends the process with an exception
PartFollows(part, url, expected, over) ==
    Len(part) > 0 =>
        /\ part[1].method = "GET"
        /\ part[1].url = url
        /\ IsPrefix(Calls(Tail(part)), expected)
        /\ over => Calls(Tail(part)) = expected
        /\ part[1].status \notin {200, 400, 404} => (pc = "exit" /\ exc # None)

\* C6: in register-model and register-device the status of the initial GET
\* decides the mutating calls: 200 gives one PUT (model) or DELETE then POST
\* (device), 400 and 404 give one POST to the collection, any other status
\* gives an exception and no PUT, POST or DELETE.
C6_GetStatusDecides ==
    Upserting =>
        /\ PartFollows(ModelPart, model_url,
                       ExpectedModelCalls(ModelPart[1].status),
                       pc \notin {"rm_get", "rm_put", "rm_post"})
        /\ cmd # "register-model" =>
               PartFollows(DevicePart, device_url,
                           ExpectedDeviceCalls(DevicePart[1].status),
                           pc = "exit")

\* register-device met an existing device and recreated it
C6_Witness ==
    /\ cmd = "register-device"
    /\ pc = "exit"
    /\ Len(log) = 3
    /\ log[1].status = 200
    /\ exc = None

(***************************************************************************)
(* C7                                                                      *)
(***************************************************************************)
\* the mutating call that decides a part: its last PUT or POST
Deciding(part) == {i \in 1..Len(part) : part[i].method \in {"PUT", "POST"}}

\* C7: register-model and register-device print their confirmation exactly
\* when their PUT or POST was answered by 200; any other status, other 2xx
\* codes included, ends the process with an exception and no confirmation,
\* and under register no request of register-device follows a register-model
\* that failed.
C7_ConfirmationIffOk ==
    Upserting =>
        /\ Echoed(ModelRegisteredLine)
               <=> \E i \in Deciding(ModelPart) : ModelPart[i].status = 200
        /\ \A i \in Deciding(ModelPart) :
               ModelPart[i].status # 200 =>
                   /\ pc = "exit"
                   /\ exc # None
                   /\ i = Len(log)
        /\ Len(DevicePart) > 0 => (cmd = "register" => Echoed(ModelRegisteredLine))
        /\ cmd # "register-model" =>
               /\ Echoed(DeviceRegisteredLine)
                      <=> \E i \in Deciding(DevicePart) : DevicePart[i].status = 200
               /\ \A i \in Deciding(DevicePart) :
                      DevicePart[i].status # 200 => (pc = "exit" /\ exc # None)
               /\ Echoed(DeviceRegisteredLine) => (pc = "exit" /\ exc = None)

\* under register the model's PUT was answered 204
C7_Witness ==
    /\ cmd = "register"
    /\ pc = "exit"
    /\ Len(log) = 2
    /\ log[2].method = "PUT"
    /\ log[2].status = 204
    /\ exc # None

(***************************************************************************)
(* C8                                                                      *)
(***************************************************************************)
\* a device model's block: three header lines, a line per trait, a blank line
Block(item) ==
    <<"Device Model Id: " \o item.deviceModelId,
      "        Project Id: " \o item.projectId,
      "        Device Type: " \o item.deviceType>>
    \o [i \in 1..Len(item.traits[1]) |-> "        Trait " \o item.traits[1][i]]
    \o <<"">>

\* the lines of the records that are not debug records
Printed == Lines(SelectSeq(out, LAMBDA rec : rec.stream # "debug"))

TraitLines(lines) == {i \in 1..Len(lines) : \E t \in 1..MaxTraits :
                          lines[i] = "        Trait " \o TraitArg(MaxTraits)[t]}

GotModel ==
    /\ cmd = "get"
    /\ pc = "exit"
    /\ args.resource = Some("deviceModels")
    /\ log[1].status = 200

RecreateFailed ==
    /\ cmd \in {"register", "register-device"}
    /\ pc = "exit"
    /\ Len(DevicePart) >= 2
    /\ \A i \in 1..(Len(DevicePart) - 1) : DevicePart[i].status = 200
    /\ DevicePart[Len(DevicePart)].status # 200

\* C9: when register-device finds the device, deletes it and the POST that
\* recreates it fails, the process ends with an exception and the device
\* that was registered when the process started is in the registry no more.
C9_DeviceLost ==
    RecreateFailed =>
        /\ Methods(DevicePart) = <<"GET", "DELETE", "POST">>
        /\ exc # None
        /\ devices0[args.device[1]] # None
        /\ devices[args.device[1]] = None

\* the device was there, and is lost
C9_Witness ==
    /\ RecreateFailed
    /\ cmd = "register-device"
    /\ devices0[args.device[1]] # None
    /\ devices[args.device[1]] = None
    /\ exc # None

(***************************************************************************)
(* C10                                                                     *)
(***************************************************************************)
\* C10: whatever the DELETE of register-device is answered, nothing is
\* raised for it, the POST is the next call, and the process ends with an
\* exception exactly when the POST was not answered 200.
C10_DeleteStatusIgnored ==
    (cmd \in {"register", "register-device"}) =>
        \A i \in 1..Len(DevicePart) :
            DevicePart[i].method = "DELETE" =>
                IF i = Len(DevicePart)
                THEN pc = "rd_post" /\ exc = None
                ELSE /\ i + 1 = Len(DevicePart)
                     /\ DevicePart[i + 1].method = "POST"
                     /\ pc = "exit"
                     /\ exc = None <=> DevicePart[i + 1].status = 200

\* the DELETE failed and the command succeeded
C10_Witness ==
    /\ cmd = "register-device"
    /\ pc = "exit"
    /\ Len(log) = 3
    /\ log[2].method = "DELETE"
    /\ log[2].status = 500
    /\ exc = None

====
